---- MODULE Spec2Model ----
(***************************************************************************)
(* A model of src/ntm/ntm.py: NTM.lossFun with its nested fprop,           *)
(* manual_grads and bprop.                                                 *)
(*                                                                         *)
(* Tensors are not modelled by their floating-point entries.  A forward    *)
(* value is a node <<name, t>> of the computation graph fprop builds       *)
(* (which parameters and which earlier values each assignment reads), and  *)
(* a gradient is the set of chain-rule paths it sums over: a path is the   *)
(* sequence of nodes from the differentiated value to a loss term.  Two    *)
(* gradients are equal when they sum the same paths.  Tensor objects live  *)
(* in a heap, so that in-place "+=" and aliasing are visible.              *)
(***************************************************************************)
EXTENDS Integers, Sequences, FiniteSets, TLC

\* ---------------------------------------------------------------- bounds
MaxT == 2
MaxCalls == 2
MaxOut == 2
NLoc == 2
MaxBeta == 1
MaxDen == 12

\* shift_width = min(3, self.N), line 23.
ShiftCap == 3

\* ------------------------------------------------------------ parameters
\* The keys of self.W in the order __init__ creates them.
KeySeq ==
  << "xh", "ho", "oy", "bh", "by", "bo", "rh",
     "ok_r", "ok_w", "obeta_r", "obeta_w", "og_r", "og_w", "os_r", "os_w",
     "ogamma_r", "ogamma_w", "oadds", "oerases",
     "bk_r", "bk_w", "bbeta_r", "bbeta_w", "bg_r", "bg_w", "bs_r", "bs_w",
     "bgamma_r", "bgamma_w", "badds", "berases",
     "rsInit", "w_wsInit", "w_rsInit", "memsInit" >>

Keys == {KeySeq[i] : i \in 1..Len(KeySeq)}

KeyIdx(k) == CHOOSE i \in 1..Len(KeySeq) : KeySeq[i] = k

\* The symbolic shape of each parameter tensor (H hidden_size, I in_size,
\* O out_size, M memory width, N locations, S shift_width).
Shape(k) ==
  CASE k = "xh" -> <<"H", "I">>
    [] k \in {"ho"} -> <<"H", "H">>
    [] k = "oy" -> <<"O", "H">>
    [] k \in {"bh", "bo"} -> <<"H", "1">>
    [] k = "by" -> <<"O", "1">>
    [] k = "rh" -> <<"H", "M">>
    [] k \in {"ok_r", "ok_w", "oadds", "oerases"} -> <<"M", "H">>
    [] k \in {"obeta_r", "obeta_w", "og_r", "og_w", "ogamma_r", "ogamma_w"} -> <<"1", "H">>
    [] k \in {"os_r", "os_w"} -> <<"S", "H">>
    [] k \in {"bk_r", "bk_w", "badds", "berases", "rsInit"} -> <<"M", "1">>
    [] k \in {"bbeta_r", "bbeta_w", "bg_r", "bg_w", "bgamma_r", "bgamma_w"} -> <<"1", "1">>
    [] k \in {"bs_r", "bs_w"} -> <<"S", "1">>
    [] k \in {"w_wsInit", "w_rsInit"} -> <<"N", "1">>
    [] OTHER -> <<"N", "M">>

VARIABLES
  W,            \* self.W: key -> id of its tensor in the heap
  heap,         \* id -> [shape, base, acc]: every tensor object allocated
  nextId,       \* the next unused object id
  out_size,     \* self.out_size
  stats,        \* self.stats
  calls,        \* number of lossFun calls started
  pc,           \* position inside lossFun
  inputs,       \* the inputs argument: [id, len]
  targets,      \* the targets argument: [id, len]
  manual_grad,  \* the manual_grad argument
  traced,       \* TRUE while fprop runs under grad(fprop)
  t,            \* the loop index of fprop / manual_grads
  tr,           \* fprop's local dictionaries, as a graph: node -> record
  loss,         \* fprop's local loss
  fret,         \* what the last fprop returned
  bstats,       \* manual_grads' unpacking of self.stats (line 203)
  deltas,       \* the deltas of manual_grads / bprop: key -> id
  auto_deltas,  \* bprop's auto_deltas (line 295): key -> id
  dd,           \* manual_grads' dictionaries drs, dzh, dmem, dmemtilde
  rd,           \* entries of drs, dzh, dmemtilde read so far by manual_grads
  autoRan,      \* grad(fprop) was invoked in this call
  manualRan,    \* manual_grads was invoked in this call
  failed_keys,
  passed_keys,
  compared,     \* the key loop of lines 298-308 ran in this call
  ret,          \* the tuple the last completed call returned
  exc,          \* the exception that ended the last call, "" if none
  given,        \* ids of the gradient tensors returned by earlier calls
  wpc,          \* SpecW: position inside fprop
  wT,           \* SpecW: len(inputs)
  wt,           \* SpecW: fprop's loop index
  w_ws,         \* SpecW: the latest write weighting, w_ws[wt - 1], as numbers
  w_rs          \* SpecW: the latest read weighting, w_rs[wt - 1], as numbers

vars == << W, heap, nextId, out_size, stats, calls, pc, inputs, targets,
           manual_grad, traced, t, tr, loss, fret, bstats, deltas, auto_deltas,
           dd, rd, autoRan, manualRan, failed_keys, passed_keys, compared, ret, exc,
           given, wpc, wT, wt, w_ws, w_rs >>

mainVars == << W, heap, nextId, out_size, stats, calls, pc, inputs, targets,
           manual_grad, traced, t, tr, loss, fret, bstats, deltas, auto_deltas,
           dd, rd, autoRan, manualRan, failed_keys, passed_keys, compared, ret, exc,
           given >>

wVars == << wpc, wT, wt, w_ws, w_rs >>

\* ------------------------------------------------------- the forward graph
NoGraph == [n \in {} |-> 0]

Node(par, raw, ops, src) == [par |-> par, raw |-> raw, ops |-> ops, src |-> src]

\* Lines 114-119: the initial conditions are read through self.W, not
\* through the params argument.
InitNodes ==
  (<<"rs", -1>> :> Node({}, {"rsInit"}, {}, {}))
  @@ (<<"w_ws", -1>> :> Node({}, {"w_wsInit"}, {}, {}))
  @@ (<<"w_rs", -1>> :> Node({}, {"w_rsInit"}, {}, {}))
  @@ (<<"mems", -1>> :> Node({}, {"memsInit"}, {}, {}))

\* Lines 158-164: the write head's addressing.
WriteWeightNode(i) ==
  Node({}, {}, {<<"k_ws", i>>, <<"beta_ws", i>>, <<"g_ws", i>>, <<"s_ws", i>>,
                <<"gamma_ws", i>>, <<"w_ws", i - 1>>, <<"mems", i - 1>>}, {})

\* Lines 166-172: the read head's addressing.
ReadWeightNode(i) ==
  Node({}, {}, {<<"k_rs", i>>, <<"beta_rs", i>>, <<"g_rs", i>>, <<"s_rs", i>>,
                <<"gamma_rs", i>>, <<"w_rs", i - 1>>, <<"mems", i - 1>>}, {})

\* Line 186: rs[t] = memory.read(mems[t-1], w_rs[t]).
ReadNodeAfterWrite(i) == Node({}, {}, {<<"mems", i>>, <<"w_rs", i>>}, {})

ReadNode(i) == Node({}, {}, {<<"mems", i - 1>>, <<"w_rs", i>>}, {})

\* Line 189: mems[t] = memory.write(mems[t-1], w_ws[t], erases[t], adds[t]).
WriteNode(i) ==
  Node({}, {}, {<<"mems", i - 1>>, <<"w_ws", i>>, <<"erases", i>>, <<"adds", i>>}, {})

\* A controller output computed from os[t] with weight key o and bias key b.
HeadParam(o, b, i) == Node({o, b}, {}, {<<"os", i>>}, {})

\* Lines 124-189: everything one iteration of fprop's loop assigns.
StepNodes(i, inp, tgt) ==
  (<<"xs", i>> :> Node({}, {}, {}, {<<"inputs", inp.id, i>>}))
  @@ (<<"zhs", i>> :> Node({"rh", "xh", "bh"}, {}, {<<"xs", i>>, <<"rs", i - 1>>}, {}))
  @@ (<<"hs", i>> :> Node({}, {}, {<<"zhs", i>>}, {}))
  @@ (<<"zos", i>> :> Node({"ho", "bo"}, {}, {<<"hs", i>>}, {}))
  @@ (<<"os", i>> :> Node({}, {}, {<<"zos", i>>}, {}))
  @@ (<<"zk_rs", i>> :> HeadParam("ok_r", "bk_r", i))
  @@ (<<"k_rs", i>> :> Node({}, {}, {<<"zk_rs", i>>}, {}))
  @@ (<<"beta_rs", i>> :> HeadParam("obeta_r", "bbeta_r", i))
  @@ (<<"g_rs", i>> :> HeadParam("og_r", "bg_r", i))
  @@ (<<"s_rs", i>> :> HeadParam("os_r", "bs_r", i))
  @@ (<<"gamma_rs", i>> :> HeadParam("ogamma_r", "bgamma_r", i))
  @@ (<<"k_ws", i>> :> HeadParam("ok_w", "bk_w", i))
  @@ (<<"beta_ws", i>> :> HeadParam("obeta_w", "bbeta_w", i))
  @@ (<<"g_ws", i>> :> HeadParam("og_w", "bg_w", i))
  @@ (<<"s_ws", i>> :> HeadParam("os_w", "bs_w", i))
  @@ (<<"gamma_ws", i>> :> HeadParam("ogamma_w", "bgamma_w", i))
  @@ (<<"adds", i>> :> HeadParam("oadds", "badds", i))
  @@ (<<"erases", i>> :> HeadParam("oerases", "berases", i))
  @@ (<<"w_ws", i>> :> WriteWeightNode(i))
  @@ (<<"w_rs", i>> :> ReadWeightNode(i))
  @@ (<<"ys", i>> :> HeadParam("oy", "by", i))
  @@ (<<"ps", i>> :> Node({}, {}, {<<"ys", i>>}, {}))
  @@ (<<"ts", i>> :> Node({}, {}, {}, {<<"targets", tgt.id, i>>}))
  @@ (<<"loss", i>> :> Node({}, {}, {<<"ps", i>>, <<"ts", i>>}, {}))
  @@ (<<"rs", i>> :> ReadNode(i))
  @@ (<<"mems", i>> :> WriteNode(i))

\* The dictionaries fprop stores in self.stats (line 191).
StatNames ==
  {"mems", "ps", "ys", "os", "zos", "hs", "zhs", "xs", "rs", "w_rs", "w_ws",
   "adds", "erases"}

\* ------------------------------------------------------------ the loss
\* loss = 0 (line 120) is a scalar; after line 183 it is an out_size x 1
\* array whose row i sums the cross-entropy terms <<t, i>>.
LossZero == [kind |-> "scalar", rows |-> 0, terms |-> {}]

LossTerms(i, o) == {<<i, b>> : b \in 1..o}

\* Lines 181-183: loss = loss - (a + b), broadcast over the out_size rows.
AccumLossOverwrite(l, i, o) == [kind |-> "array", rows |-> o, terms |-> LossTerms(i, o)]

AccumLoss(l, i, o) ==
  [kind |-> "array", rows |-> o, terms |-> l.terms \cup LossTerms(i, o)]

\* Line 192: np.sum(loss).
NpSum(l) == [kind |-> "scalar", rows |-> 0, terms |-> l.terms]

NoStats == [set |-> FALSE, boxed |-> FALSE, loss |-> LossZero, g |-> NoGraph]

Restrict(g, names) == [n \in {m \in DOMAIN g : m[1] \in names} |-> g[n]]

\* The inputs sequences a graph was computed from.
InputsOf(g) ==
  {s[2] : s \in {x \in UNION {g[n].src : n \in DOMAIN g} : x[1] = "inputs"}}

\* The timesteps 0.. a dictionary of the graph holds.
Steps(g, name) == {n[2] : n \in {m \in DOMAIN g : m[1] = name /\ m[2] >= 0}}

\* ------------------------------------------------------------ gradients
\* The chain rule through node n: every path of S, entered through n.
Via(n, S) == {<<n>> \o p : p \in S}

Consumers(g, n) == {c \in DOMAIN g : n \in g[c].ops}

\* The names fprop assigns in one iteration, in the order of lines 124-189.
NameSeq ==
  << "xs", "zhs", "hs", "zos", "os", "zk_rs", "k_rs", "beta_rs", "g_rs", "s_rs",
     "gamma_rs", "k_ws", "beta_ws", "g_ws", "s_ws", "gamma_ws", "adds", "erases",
     "w_ws", "w_rs", "ys", "ps", "ts", "loss", "rs", "mems" >>

\* grad(fprop), lines 294-295 and 319-320: reverse-mode differentiation of
\* the computation fprop recorded.  The nodes are visited last assigned
\* first (steps from the last down to -1, names in reverse within a step);
\* the result maps each node n to d(sum of loss)/d(n), accumulated from the
\* nodes that consume n.  (The test on DOMAIN done is never true; it has the
\* map built so far evaluated at every step rather than all at the end.)
RECURSIVE SensNames(_, _, _, _)
SensNames(g, i, j, done) ==
  IF j = 0 \/ DOMAIN done = {<<"", 0>>} THEN done
  ELSE LET n == <<NameSeq[j], i>>
       IN  IF n \notin DOMAIN g THEN SensNames(g, i, j - 1, done)
           ELSE SensNames(g, i, j - 1,
                  (n :> (IF n[1] = "loss" THEN {<< >>}
                         ELSE UNION {Via(c, done[c]) : c \in Consumers(g, n)}))
                    @@ done)

RECURSIVE SensSteps(_, _, _)
SensSteps(g, i, done) ==
  IF i < -1 THEN done
  ELSE SensSteps(g, i - 1, SensNames(g, i, Len(NameSeq), done))

Sens(g) == SensSteps(g, MaxT, [n \in {} |-> {}])

\* The oracle differentiates with respect to the params argument only: a
\* value read through self.W (field raw) is a constant to it.
OracleGrad(g, sens, k) ==
  UNION {Via(n, sens[n]) : n \in {m \in DOMAIN g : k \in g[m].par}}

\* Everything a node is computed from.
RECURSIVE Anc(_, _)
Anc(g, n) ==
  IF n \notin DOMAIN g THEN {}
  ELSE g[n].ops \cup UNION {Anc(g, m) : m \in g[n].ops}

\* The parameters the value of node n depends on, however they were read.
ParamsOf(g, n) ==
  UNION {g[m].par \cup g[m].raw : m \in (Anc(g, n) \cup {n}) \cap DOMAIN g}

LossDeps(g) == UNION {ParamsOf(g, n) : n \in {m \in DOMAIN g : m[1] = "loss"}}

\* --------------------------------------------------------------- heap
ParamTensor(k) == [shape |-> Shape(k), base |-> k, acc |-> {}]

\* np.zeros_like(val), line 201.
ZerosLike(val) == [shape |-> val.shape, base |-> "0", acc |-> {}]

IsZero(x) == x.base = "0" /\ x.acc = {}

\* Line 201: the object deltas[key] is bound to.
DeltaEntryAlias(freshId, paramId) == paramId

DeltaEntry(freshId, paramId) == freshId

NoDeltas == [k \in {} |-> 0]

NoDict == [i \in {} |-> {}]

NoDD == [drs |-> NoDict, dzh |-> NoDict, dmem |-> NoDict, dmemtilde |-> NoDict]

NoRet == [call |-> 0, loss |-> LossZero, deltas |-> NoDeltas, g |-> NoGraph]

ReturnedNames == {"ps", "w_rs", "w_ws", "adds", "erases"}

\* ---------------------------------------------------------------- Init
MainInit ==
  /\ W = [k \in Keys |-> KeyIdx(k)]
  /\ heap = [i \in 1..Len(KeySeq) |-> ParamTensor(KeySeq[i])]
  /\ nextId = Len(KeySeq) + 1
  /\ out_size \in 1..MaxOut
  /\ stats = NoStats
  /\ calls = 0
  /\ pc = "idle"
  /\ inputs = [id |-> 0, len |-> 0]
  /\ targets = [id |-> 0, len |-> 0]
  /\ manual_grad = FALSE
  /\ traced = FALSE
  /\ t = 0
  /\ tr = NoGraph
  /\ loss = LossZero
  /\ fret = LossZero
  /\ bstats = NoStats
  /\ deltas = NoDeltas
  /\ auto_deltas = NoDeltas
  /\ dd = NoDD
  /\ rd = {}
  /\ autoRan = FALSE
  /\ manualRan = FALSE
  /\ failed_keys = {}
  /\ passed_keys = {}
  /\ compared = FALSE
  /\ ret = NoRet
  /\ exc = ""
  /\ given = {}

NoWeighting == [num |-> << >>, den |-> 1]

Init ==
  /\ MainInit
  /\ wpc = "off" /\ wT = 0 /\ wt = 0 /\ w_ws = NoWeighting /\ w_rs = NoWeighting

\* ------------------------------------------------------------- lossFun
\* Line 290: if manual_grad.
UseManualNegated(m) == ~m

UseManual(m) == m

\* Line 292: the manual branch runs fprop(params) before manual_grads.
ManualBranchSkipsFprop == "manual_init"

ManualBranchEntry == "fprop_init"

\* Line 88 and 323: a caller invokes lossFun(inputs, targets, manual_grad);
\* bprop(self.W, manual_grad) takes its branch.  A caller that caught an
\* exception of an earlier call may call again.
Call ==
  /\ pc \in {"idle", "returned", "raised"}
  /\ calls < MaxCalls
  /\ \E li \in 1..MaxT, lt \in 1..MaxT, m \in BOOLEAN :
       /\ inputs' = [id |-> calls + 1, len |-> li]
       /\ targets' = [id |-> calls + 1, len |-> lt]
       /\ manual_grad' = m
       /\ traced' = ~UseManual(m)
       /\ pc' = IF UseManual(m) THEN ManualBranchEntry ELSE "fprop_init"
  /\ calls' = calls + 1
  /\ given' = given \cup {ret.deltas[k] : k \in DOMAIN ret.deltas}
  /\ t' = 0 /\ tr' = NoGraph /\ loss' = LossZero /\ fret' = LossZero
  /\ bstats' = NoStats /\ deltas' = NoDeltas /\ auto_deltas' = NoDeltas
  /\ dd' = NoDD /\ rd' = {}
  /\ autoRan' = FALSE /\ manualRan' = FALSE
  /\ failed_keys' = {} /\ passed_keys' = {} /\ compared' = FALSE
  /\ exc' = ""
  /\ UNCHANGED << W, heap, nextId, out_size, stats, ret >>
  /\ UNCHANGED wVars

\* Lines 98-120: fprop's locals and the t = -1 entries.
FpropInit ==
  /\ pc = "fprop_init"
  /\ tr' = InitNodes
  /\ loss' = LossZero
  /\ t' = 0
  /\ pc' = "fprop_loop"
  /\ autoRan' = (autoRan \/ traced)
  /\ UNCHANGED << W, heap, nextId, out_size, stats, calls, inputs, targets,
                  manual_grad, traced, fret, bstats, deltas, dd, rd,
                  manualRan, failed_keys, passed_keys, compared, ret, exc, given >>
  /\ UNCHANGED auto_deltas
  /\ UNCHANGED wVars

\* Lines 122-189: one iteration.  targets[t] (line 178) raises IndexError
\* when targets is shorter than inputs.
FpropStep ==
  /\ pc = "fprop_loop"
  /\ t < inputs.len
  /\ IF t >= targets.len
       THEN /\ pc' = "raised"
            /\ exc' = "IndexError:targets"
            /\ UNCHANGED << tr, loss, t >>
       ELSE /\ tr' = StepNodes(t, inputs, targets) @@ tr
            /\ loss' = AccumLoss(loss, t, out_size)
            /\ t' = t + 1
            /\ UNCHANGED << pc, exc >>
  /\ UNCHANGED << W, heap, nextId, out_size, stats, calls, inputs, targets,
                  manual_grad, traced, fret, bstats, deltas, dd, rd, autoRan,
                  manualRan, failed_keys, passed_keys, compared, ret, given >>
  /\ UNCHANGED auto_deltas
  /\ UNCHANGED wVars

\* Lines 191-192: self.stats = [...]; return np.sum(loss).
FpropEnd ==
  /\ pc = "fprop_loop"
  /\ t = inputs.len
  /\ stats' = [set |-> TRUE, boxed |-> traced, loss |-> loss,
               g |-> Restrict(tr, StatNames)]
  /\ fret' = NpSum(loss)
  /\ pc' = IF traced THEN "autograd" ELSE "manual_init"
  /\ UNCHANGED << W, heap, nextId, out_size, calls, inputs, targets,
                  manual_grad, traced, t, tr, loss, bstats, deltas, dd, rd,
                  autoRan, manualRan, failed_keys, passed_keys, compared, ret,
                  exc, given >>
  /\ UNCHANGED auto_deltas
  /\ UNCHANGED wVars

\* ----------------------------------------------------------- manual_grads
\* Lines 199-208: a zero tensor per parameter, the unpacking of self.stats,
\* and the empty dictionaries.  Unpacking None raises TypeError.
ManualInit ==
  /\ pc = "manual_init"
  /\ manualRan' = TRUE
  /\ heap' = [i \in 1..(nextId + Len(KeySeq) - 1) |->
                IF i < nextId THEN heap[i]
                ELSE ZerosLike(heap[W[KeySeq[i - nextId + 1]]])]
  /\ nextId' = nextId + Len(KeySeq)
  /\ deltas' = [k \in Keys |-> DeltaEntry(nextId + KeyIdx(k) - 1, W[k])]
  /\ IF stats.set
       THEN /\ bstats' = stats
            /\ dd' = NoDD
            /\ rd' = {}
            /\ t' = targets.len - 1
            /\ pc' = "manual_loop"
            /\ exc' = ""
       ELSE /\ pc' = "raised"
            /\ exc' = "TypeError:stats"
            /\ UNCHANGED << bstats, dd, rd, t >>
  /\ UNCHANGED << W, out_size, stats, calls, inputs, targets, manual_grad,
                  traced, tr, loss, fret, autoRan, failed_keys, passed_keys,
                  compared, ret, given >>
  /\ UNCHANGED auto_deltas
  /\ UNCHANGED wVars

\* Lines 217 and 260: if t < len(targets) - 1.
HasNextOffByOne(i, n) == i < n

HasNext(i, n) == i < n - 1

\* Line 211-212: dy = ps[t] - targets[t], the derivative of the loss term
\* of step t with respect to ys[t].
Dy(i) == {<< <<"ps", i>>, <<"loss", i>> >>}

\* Line 219: drs[t] = rh^T dzh[t+1]; line 255: zeros.
Drs(i, n, d) == IF HasNext(i, n) THEN Via(<<"zhs", i + 1>>, d.dzh[i + 1]) ELSE {}

\* Lines 222-228: dmem[t] = w_rs[t+1] drs[t+1]^T + dmemtilde[t+1] * KEEP.
Dmem(i, n, d) ==
  IF HasNext(i, n)
    THEN Via(<<"rs", i + 1>>, d.drs[i + 1])
           \cup Via(<<"mems", i + 1>>, d.dmemtilde[i + 1])
    ELSE {}

\* Line 230: dmemtilde[t] = dmem[t]; line 256: zeros.
Dmemtilde(i, n, d) == IF HasNext(i, n) THEN Dmem(i, n, d) ELSE {}

\* Lines 234-237: dzerase, the gradient at the pre-activation of erases[t].
Dzerase(i, n, d) ==
  IF HasNext(i, n) THEN Via(<<"erases", i>>, Via(<<"mems", i>>, Dmemtilde(i, n, d))) ELSE {}

\* Lines 240-243: dzadd, the gradient at the pre-activation of adds[t].
Dzadd(i, n, d) ==
  IF HasNext(i, n) THEN Via(<<"adds", i>>, Via(<<"mems", i>>, Dmem(i, n, d))) ELSE {}

\* Lines 259-263: do = oy^T dy (+ oadds^T dzadd + oerases^T dzerase).
Do(i, n, d) ==
  Via(<<"ys", i>>, Dy(i))
    \cup (IF HasNext(i, n) THEN Dzadd(i, n, d) \cup Dzerase(i, n, d) ELSE {})

\* Line 266: dzo = do * (1 - os[t]^2).
Dzo(i, n, d) == Via(<<"os", i>>, Do(i, n, d))

\* Lines 272-275: dh = ho^T dzo; dzh[t] = dh * (1 - hs[t]^2).
Dzh(i, n, d) == Via(<<"hs", i>>, Via(<<"zos", i>>, Dzo(i, n, d)))

\* What one iteration adds to deltas[k] (lines 214-215, 246-252, 268-269,
\* 277-281); the empty set for a key the iteration does not touch.
Contribution(k, i, n, d) ==
  CASE k \in {"oy", "by"} -> Via(<<"ys", i>>, Dy(i))
    [] k \in {"badds", "oadds"} -> Dzadd(i, n, d)
    [] k \in {"berases", "oerases"} -> Dzerase(i, n, d)
    [] k \in {"ho", "bo"} -> Via(<<"zos", i>>, Dzo(i, n, d))
    [] k \in {"xh", "bh", "rh"} -> Via(<<"zhs", i>>, Dzh(i, n, d))
    [] OTHER -> {}

\* The keys one iteration applies "+=" to.
Touched(i, n) ==
  {"oy", "by", "ho", "bo", "xh", "bh", "rh"}
    \cup (IF HasNext(i, n) THEN {"badds", "oadds", "berases", "oerases"} ELSE {})

\* The dictionary entries an iteration reads from the iteration before it
\* (lines 219, 222, 228).
RecurrenceReads(i, n) ==
  IF HasNext(i, n)
    THEN {<<"dzh", i + 1>>, <<"drs", i + 1>>, <<"dmemtilde", i + 1>>}
    ELSE {}

Written(d) ==
  {<<"dzh", i>> : i \in DOMAIN d.dzh} \cup {<<"drs", i>> : i \in DOMAIN d.drs}
    \cup {<<"dmemtilde", i>> : i \in DOMAIN d.dmemtilde}

\* Lines 209-281: one iteration of the reversed loop.  ps[t] (line 211)
\* raises KeyError when the trace has no step t; so does a read of a
\* recurrence entry no iteration has written.
ManualStep ==
  /\ pc = "manual_loop"
  /\ t >= 0
  /\ IF <<"ps", t>> \notin DOMAIN bstats.g
       THEN /\ pc' = "raised"
            /\ exc' = "KeyError:ps"
            /\ UNCHANGED << heap, dd, rd, t >>
     ELSE IF ~(RecurrenceReads(t, targets.len) \subseteq Written(dd))
       THEN /\ pc' = "raised"
            /\ exc' = "KeyError:recurrence"
            /\ UNCHANGED << heap, dd, rd, t >>
     ELSE /\ heap' = [i \in DOMAIN heap |->
                        IF \E k \in Touched(t, targets.len) : deltas[k] = i
                          THEN [heap[i] EXCEPT !.acc =
                                  @ \cup UNION {Contribution(k, t, targets.len, dd) :
                                                 k \in {x \in Touched(t, targets.len) : deltas[x] = i}}]
                          ELSE heap[i]]
          /\ dd' = [drs |-> (t :> Drs(t, targets.len, dd)) @@ dd.drs,
                    dzh |-> (t :> Dzh(t, targets.len, dd)) @@ dd.dzh,
                    dmem |-> IF HasNext(t, targets.len)
                               THEN (t :> Dmem(t, targets.len, dd)) @@ dd.dmem
                               ELSE dd.dmem,
                    dmemtilde |-> (t :> Dmemtilde(t, targets.len, dd)) @@ dd.dmemtilde]
          /\ rd' = rd \cup RecurrenceReads(t, targets.len)
          /\ t' = t - 1
          /\ UNCHANGED << pc, exc >>
  /\ UNCHANGED << W, nextId, out_size, stats, calls, inputs, targets,
                  manual_grad, traced, tr, loss, fret, bstats, deltas, autoRan,
                  manualRan, failed_keys, passed_keys, compared, ret, given >>
  /\ UNCHANGED auto_deltas
  /\ UNCHANGED wVars

\* Lines 283 and 294-295: manual_grads returns deltas; bprop goes on to
\* f = grad(fprop); auto_deltas = f(params), which runs fprop again.
ManualEnd ==
  /\ pc = "manual_loop"
  /\ t < 0
  /\ traced' = TRUE
  /\ pc' = "fprop_init"
  /\ UNCHANGED << W, heap, nextId, out_size, stats, calls, inputs, targets,
                  manual_grad, t, tr, loss, fret, bstats, deltas, dd, rd,
                  autoRan, manualRan, failed_keys, passed_keys, compared, ret,
                  exc, given >>
  /\ UNCHANGED auto_deltas
  /\ UNCHANGED wVars

\* ------------------------------------------------------------------ bprop
\* Lines 294-295 and 319-320: after the traced fprop, the oracle returns a
\* new mapping with one tensor per key of params.
AutoGrad ==
  /\ pc = "autograd"
  /\ LET sens == Sens(tr)
     IN  heap' = [i \in 1..(nextId + Len(KeySeq) - 1) |->
                    IF i < nextId THEN heap[i]
                    ELSE [shape |-> Shape(KeySeq[i - nextId + 1]), base |-> "0",
                          acc |-> OracleGrad(tr, sens, KeySeq[i - nextId + 1])]]
  /\ nextId' = nextId + Len(KeySeq)
  /\ auto_deltas' = [k \in Keys |-> nextId + KeyIdx(k) - 1]
  /\ IF UseManual(manual_grad)
       THEN /\ pc' = "compare"
            /\ UNCHANGED deltas
       ELSE /\ pc' = "bprop_end"
            /\ deltas' = [k \in Keys |-> nextId + KeyIdx(k) - 1]
  /\ UNCHANGED << W, out_size, stats, calls, inputs, targets, manual_grad,
                  traced, t, tr, loss, fret, bstats, dd, rd, autoRan,
                  manualRan, failed_keys, passed_keys, compared, ret, exc, given >>
  /\ UNCHANGED wVars

\* util.compare_deltas(baseline, candidate): the tolerance test.
compare_deltas(baseline, candidate) ==
  baseline.shape = candidate.shape /\ baseline.acc = candidate.acc

\* Lines 298-308: every key of auto_deltas goes to failed_keys or passed_keys.
Compare ==
  /\ pc = "compare"
  /\ failed_keys' = {k \in DOMAIN auto_deltas :
                       ~compare_deltas(heap[auto_deltas[k]], heap[deltas[k]])}
  /\ passed_keys' = {k \in DOMAIN auto_deltas :
                       compare_deltas(heap[auto_deltas[k]], heap[deltas[k]])}
  /\ compared' = TRUE
  /\ pc' = "bprop_end"
  /\ UNCHANGED << W, heap, nextId, out_size, stats, calls, inputs, targets,
                  manual_grad, traced, t, tr, loss, fret, bstats, deltas,
                  auto_deltas, dd, rd, autoRan, manualRan, ret, exc, given >>
  /\ UNCHANGED wVars

\* Line 309: if len(failed_keys) > 0.
MustExitNever(failed) == FALSE

MustExit(failed) == Cardinality(failed) > 0

\* Lines 309-316: sys.exit(1).
Exit ==
  /\ pc = "bprop_end"
  /\ compared /\ MustExit(failed_keys)
  /\ pc' = "exited"
  /\ UNCHANGED << W, heap, nextId, out_size, stats, calls, inputs, targets,
                  manual_grad, traced, t, tr, loss, fret, bstats, deltas,
                  auto_deltas, dd, rd, autoRan, manualRan, failed_keys,
                  passed_keys, compared, ret, exc, given >>
  /\ UNCHANGED wVars

\* Line 324: loss is self.stats[0], the array fprop accumulated, unwrapped.
ReturnedLoss(st) == st.loss

\* Lines 321-326: bprop returns deltas; lossFun unwraps self.stats and
\* returns loss, deltas, ps, w_rs, w_ws, adds, erases.
Return ==
  /\ pc = "bprop_end"
  /\ ~(compared /\ MustExit(failed_keys))
  /\ ret' = [call |-> calls, loss |-> ReturnedLoss(stats), deltas |-> deltas,
             g |-> Restrict(stats.g, ReturnedNames)]
  /\ pc' = "returned"
  /\ UNCHANGED << W, heap, nextId, out_size, stats, calls, inputs, targets,
                  manual_grad, traced, t, tr, loss, fret, bstats, deltas,
                  auto_deltas, dd, rd, autoRan, manualRan, failed_keys,
                  passed_keys, compared, exc, given >>
  /\ UNCHANGED wVars

Next ==
  \/ Call
  \/ FpropInit
  \/ FpropStep
  \/ FpropEnd
  \/ ManualInit
  \/ ManualStep
  \/ ManualEnd
  \/ AutoGrad
  \/ Compare
  \/ Exit
  \/ Return

Spec == Init /\ [][Next]_vars


\* ===================================================================
\* The weightings as numbers (SpecW)
\* ===================================================================
\* A weighting over the NLoc locations is a vector of integer numerators
\* over one denominator.  The head parameters are drawn from the ranges
\* their nonlinearities guarantee (lines 134-150): the cosine similarities
\* of the key to the memory rows in {-1, 0, 1}, beta >= 0 (softplus), the
\* gate in [0, 1] (sigmoid), the shift distribution on the simplex
\* (softmax), gamma in {1, 2} (1 + sigmoid).  exp is taken to base 2.
RECURSIVE SumSeq(_)
SumSeq(q) == IF q = << >> THEN 0 ELSE q[1] + SumSeq(Tail(q))

RECURSIVE Gcd(_, _)
Gcd(a, b) == IF b = 0 THEN a ELSE Gcd(b, a % b)

Abs(x) == IF x < 0 THEN -x ELSE x

RECURSIVE GcdSeq(_)
GcdSeq(q) == IF q = << >> THEN 0 ELSE Gcd(Abs(q[1]), GcdSeq(Tail(q)))

RECURSIVE Pow(_, _)
Pow(b, e) == IF e = 0 THEN 1 ELSE b * Pow(b, e - 1)

MinSeq(q) == CHOOSE x \in {q[i] : i \in 1..Len(q)} : \A i \in 1..Len(q) : x <= q[i]

\* The same weighting in lowest terms.
Reduce(w) ==
  LET d == Gcd(GcdSeq(w.num), Abs(w.den))
  IN  IF d = 0 THEN w
      ELSE [num |-> [i \in 1..Len(w.num) |-> w.num[i] \div d], den |-> w.den \div d]

\* util.softmax: exp(z_i) / sum_j exp(z_j).
softmax(z) ==
  LET e == [i \in 1..Len(z) |-> Pow(2, z[i] - MinSeq(z))]
  IN  Reduce([num |-> e, den |-> SumSeq(e)])

\* addressing.create_weights, step 1: softmax over the rows of
\* beta * cosine_similarity(row, key).
ContentWeighting(sim, beta) == softmax([i \in 1..Len(sim) |-> beta * sim[i]])

\* Step 2: g * content + (1 - g) * previous, with g = gate[1] / gate[2].
Interpolate(gate, c, p) ==
  Reduce([num |-> [i \in 1..Len(c.num) |->
                     gate[1] * c.num[i] * p.den + (gate[2] - gate[1]) * p.num[i] * c.den],
          den |-> gate[2] * c.den * p.den])

\* shift_width = min(3, self.N), line 23.
ShiftWidth(n) == IF n < ShiftCap THEN n ELSE ShiftCap

\* Step 3: circular convolution with the shift distribution s, whose entry
\* j moves attention by j - 1 - (width \div 2) locations, wrapping around.
Shift(w, s) ==
  LET n == Len(w.num)
      width == Len(s.num)
      from(i, j) == ((i - 1 - (j - 1 - (width \div 2))) % n) + 1
  IN  Reduce([num |-> [i \in 1..n |->
                         SumSeq([j \in 1..width |-> w.num[from(i, j)] * s.num[j]])],
              den |-> w.den * s.den])

\* Step 4: w_i^gamma / sum_j w_j^gamma.
Sharpen(w, gamma) ==
  LET e == [i \in 1..Len(w.num) |-> Pow(w.num[i], gamma)]
  IN  Reduce([num |-> e, den |-> SumSeq(e)])

Logits == [1..NLoc -> {-1, 0, 1}]

Sims == [1..NLoc -> {-1, 0, 1}]

Gates == {<<0, 1>>, <<1, 2>>, <<1, 1>>}

ShiftDists ==
  {[num |-> q, den |-> 2] :
     q \in {x \in [1..ShiftWidth(NLoc) -> 0..2] : SumSeq(x) = 2}}

Gammas == {1, 2}

\* Only weightings whose denominator is within MaxDen are followed.
Representable(S) == {w \in S : w.den <= MaxDen}

\* The content weightings of step 1, over the similarities and beta.
Contents ==
  Representable({ContentWeighting(sim, beta) : sim \in Sims, beta \in 0..MaxBeta})

\* addressing.create_weights(k, beta, g, s, gamma, w_prev, mem): the
\* weightings its four steps can return from w_prev, over the head
\* parameters k, beta, g, s, gamma and the memory.
create_weights(w_prev) ==
  LET gated == Representable({Interpolate(gate, c, w_prev) : gate \in Gates, c \in Contents})
      shifted == Representable({Shift(x, s) : x \in gated, s \in ShiftDists})
  IN  Representable({Sharpen(x, gamma) : x \in shifted, gamma \in Gammas})

\* Lines 115-116: w_ws[-1] = softmax(self.W['w_wsInit']), likewise w_rs[-1].
InitWeightingRaw(z) == [num |-> z, den |-> 1]

InitWeighting(z) == softmax(z)

InitW ==
  /\ MainInit
  /\ wpc = "init" /\ wT \in 1..MaxT /\ wt = 0
  /\ w_ws = NoWeighting /\ w_rs = NoWeighting

\* Lines 113-116: the weightings of timestep -1.
WInit ==
  /\ wpc = "init"
  /\ \E zw \in Logits, zr \in Logits :
       /\ w_ws' = InitWeighting(zw)
       /\ w_rs' = InitWeighting(zr)
  /\ wt' = 0
  /\ wpc' = "write"
  /\ UNCHANGED wT
  /\ UNCHANGED mainVars

\* Lines 158-164: w_ws[t] from w_ws[t-1].
WStepWrite ==
  /\ wpc = "write"
  /\ wt < wT
  /\ w_ws' \in create_weights(w_ws)
  /\ wpc' = "read"
  /\ UNCHANGED << wT, wt, w_rs >>
  /\ UNCHANGED mainVars

\* Lines 166-172: w_rs[t] from w_rs[t-1]; the iteration ends.
WStepRead ==
  /\ wpc = "read"
  /\ w_rs' \in create_weights(w_rs)
  /\ wt' = wt + 1
  /\ wpc' = "write"
  /\ UNCHANGED << wT, w_ws >>
  /\ UNCHANGED mainVars

\* Line 191: the loop is over; the weightings go into self.stats.
WEnd ==
  /\ wpc = "write"
  /\ wt = wT
  /\ wpc' = "done"
  /\ UNCHANGED << wT, wt, w_ws, w_rs >>
  /\ UNCHANGED mainVars

NextW ==
  \/ WInit
  \/ WStepWrite
  \/ WStepRead
  \/ WEnd

SpecW == InitW /\ [][NextW]_vars

OnSimplex(w) ==
  /\ Len(w.num) = NLoc
  /\ \A i \in 1..NLoc : w.num[i] >= 0
  /\ w.den > 0
  /\ SumSeq(w.num) = w.den

\* C1: every read weighting and every write weighting fprop records, the
\* initial ones of timestep -1 and the one of each step 0..T-1, is
\* element-wise non-negative and sums to 1.
C1_Simplex == wpc # "init" => (OnSimplex(w_ws) /\ OnSimplex(w_rs))

C1_Witness ==
  /\ wpc = "done" /\ wT >= 2
  /\ w_ws.den > 2 /\ w_rs.den > 2 /\ w_ws # w_rs


\* ===================================================================
\* Properties
\* ===================================================================
Range(f) == {f[x] : x \in DOMAIN f}

\* The call in progress has returned its tuple.
Returned == pc = "returned" /\ ret.call = calls

AllTerms == {<<i, b>> : i \in 0..(inputs.len - 1), b \in 1..out_size}

\* C2 as stated: with manual_grad = FALSE a returning call has skipped the
\* comparison, has not invoked the oracle, and returns the collection
\* manual_grads computed.
C2_Original ==
  (Returned /\ ~manual_grad) =>
    (~compared /\ ~autoRan /\ manualRan /\ ret.deltas # auto_deltas)

\* C2 amended: with manual_grad = FALSE a returning call has skipped the
\* comparison and has not run manual_grads; it has invoked the oracle and
\* returns the oracle's collection.
C2_Amended ==
  (Returned /\ ~manual_grad) =>
    (~compared /\ ~manualRan /\ autoRan /\ ret.deltas = auto_deltas
       /\ DOMAIN ret.deltas = Keys)

C2_Witness == Returned /\ ~manual_grad /\ autoRan

\* The outcomes of a call with manual_grad = TRUE: sys.exit(1) exactly when
\* a key failed the comparison and then nothing is returned, the full tuple
\* exactly when no key failed, and nothing else.
VerifyOutcomes ==
  /\ pc # "raised"
  /\ pc = "exited" => (compared /\ failed_keys # {} /\ ret.call # calls)
  /\ pc = "returned" =>
       (compared /\ failed_keys = {} /\ ret.call = calls
          /\ DOMAIN ret.deltas = Keys /\ failed_keys \cup passed_keys = Keys)
  /\ pc = "bprop_end" =>
       (compared /\ (ENABLED Exit <=> failed_keys # {})
          /\ (ENABLED Return <=> failed_keys = {}))

\* C3 as stated: every call with manual_grad = TRUE ends in one of the two
\* outcomes, whatever its inputs and targets.
C3_Original == manual_grad => VerifyOutcomes

\* C3 amended: the same, for calls whose inputs and targets have the same
\* length (otherwise the call ends in an IndexError or KeyError before any
\* key is compared).
C3_Amended == (manual_grad /\ inputs.len = targets.len) => VerifyOutcomes

C3_Witness == pc = "exited" /\ manual_grad /\ failed_keys # {} /\ passed_keys # {}

\* C4 as stated: the returned loss is the scalar sum over timesteps and
\* output bits, the value fprop returned to the gradient computation.
C4_Original ==
  Returned => (ret.loss.kind = "scalar" /\ ret.loss.terms = AllTerms /\ ret.loss = fret)

\* C4 amended: the returned loss is the out_size x 1 array whose row b is
\* the sum over timesteps 0..T-1 of bit b's cross-entropy terms; the sum of
\* its rows is the scalar fprop returned to the gradient computation.
C4_Amended ==
  Returned =>
    (ret.loss = [kind |-> "array", rows |-> out_size, terms |-> AllTerms]
       /\ NpSum(ret.loss) = fret /\ fret.kind = "scalar")

C4_Witness == Returned /\ inputs.len >= 2 /\ out_size >= 2

\* C5 as stated: once both collections exist, every key's manual gradient
\* equals the oracle's.
C5_Claim ==
  (pc = "compare") =>
    \A k \in Keys : heap[deltas[k]].acc = heap[auto_deltas[k]].acc

\* C6 as stated: a call whose inputs and targets differ in length never
\* returns a tuple.
C6_Claim == (inputs.len # targets.len) => ~Returned

\* C7: the parameter tensors never change; the collection manual_grads
\* builds holds, before the first "+=", one new zero tensor per parameter
\* key, of that parameter's shape; and no tensor of a collection a call
\* works on or returns is a parameter tensor or a tensor an earlier call
\* returned.
FreshCollection(d) ==
  /\ DOMAIN d = Keys
  /\ \A k \in Keys : heap[d[k]].shape = Shape(k)
  /\ \A k \in Keys : d[k] \notin Range(W) /\ d[k] \notin given
  /\ \A j, k \in Keys : j # k => d[j] # d[k]

C7_FrameAndFresh ==
  /\ W = [k \in Keys |-> KeyIdx(k)]
  /\ \A k \in Keys : heap[W[k]] = ParamTensor(k)
  /\ (pc = "manual_loop" /\ t = targets.len - 1) =>
       (FreshCollection(deltas) /\ \A k \in Keys : IsZero(heap[deltas[k]]))
  /\ pc = "manual_loop" => FreshCollection(deltas)
  /\ Returned => FreshCollection(ret.deltas)

C7_Witness ==
  Returned /\ manual_grad /\ given # {} /\ \E k \in Keys : heap[ret.deltas[k]].acc # {}

\* C8: at every step fprop has run, both addressings and the read use the
\* memory of the step before; each weighting is computed from its own
\* head's previous weighting; the read vector does not depend on that
\* step's write; the new memory is the write applied to the previous one.
Weightish == {"w_ws", "w_rs", "mems"}

StateOps(g, n) == {m \in g[n].ops : m[1] \in Weightish}

C8_PreviousMemory ==
  \A i \in Steps(tr, "mems") :
    /\ StateOps(tr, <<"w_ws", i>>) = {<<"w_ws", i - 1>>, <<"mems", i - 1>>}
    /\ StateOps(tr, <<"w_rs", i>>) = {<<"w_rs", i - 1>>, <<"mems", i - 1>>}
    /\ tr[<<"rs", i>>].ops = {<<"mems", i - 1>>, <<"w_rs", i>>}
    /\ tr[<<"mems", i>>].ops =
         {<<"mems", i - 1>>, <<"w_ws", i>>, <<"erases", i>>, <<"adds", i>>}
    /\ Anc(tr, <<"rs", i>>) \cap
         {<<"mems", i>>, <<"w_ws", i>>, <<"erases", i>>, <<"adds", i>>} = {}

C8_Witness == pc = "fprop_loop" /\ Steps(tr, "mems") = {0, 1}

\* C9: the terminal entries drs[T-1] and dmemtilde[T-1] are zero; for T = 1
\* no recurrence entry is read and no gradient holds a path through a read
\* vector or a memory; and every recurrence entry an iteration t < T-1
\* reads was written by the iteration before it.
ThroughMemory(P) ==
  \E p \in P : \E j \in 1..Len(p) : p[j][1] \in {"rs", "mems"}

C9_Boundary ==
  pc \in {"manual_loop", "raised"} /\ manualRan =>
    /\ exc # "KeyError:recurrence"
    /\ rd \subseteq Written(dd)
    /\ (targets.len - 1) \in DOMAIN dd.drs =>
         (dd.drs[targets.len - 1] = {} /\ dd.dmemtilde[targets.len - 1] = {})
    /\ targets.len = 1 =>
         (rd = {} /\ \A k \in DOMAIN deltas : ~ThroughMemory(heap[deltas[k]].acc))
    /\ (pc = "manual_loop" /\ t >= 0 /\ t < targets.len - 1
          /\ <<"ps", t>> \in DOMAIN bstats.g) =>
         {<<"dzh", t + 1>>, <<"drs", t + 1>>, <<"dmemtilde", t + 1>>} \subseteq Written(dd)

C9_Witness ==
  pc = "manual_loop" /\ t < 0 /\ targets.len = 2 /\ rd # {}
    /\ dd.drs[1] = {} /\ dd.drs[0] # {}

\* C10: manual_grads works on the trace this call's fprop stored after
\* all its timesteps; the oracle's backward pass starts from a complete
\* trace of this call's inputs; and the dictionaries a call returns are
\* those of this call's inputs.
Complete(g) ==
  /\ InputsOf(g) = {inputs.id}
  /\ Steps(g, "ps") = 0..(inputs.len - 1)
  /\ Steps(g, "mems") = 0..(inputs.len - 1)

C10_OwnTrace ==
  /\ pc = "manual_loop" => (stats.set /\ bstats = stats /\ Complete(bstats.g))
  /\ pc \in {"autograd", "compare", "bprop_end"} => (Complete(tr) /\ Complete(stats.g))
  /\ Returned => (Complete(stats.g) /\ ret.g = Restrict(stats.g, ReturnedNames))

C10_Witness ==
  pc = "manual_loop" /\ t < 0 /\ calls = 2 /\ ret.call = 1 /\ ret.g # NoGraph

====
